---- MODULE Spec2Model ----
(***************************************************************************)
(* Model of mesos::internal::master::allocator::RandomSorter               *)
(* (src/master/allocator/sorter/random/sorter.cpp).                        *)
(*                                                                         *)
(* A Node object is identified by the sequence of node names on the way    *)
(* from the root to it (the root is <<>>, the virtual leaf below the node  *)
(* a/b is <<"a","b",".">>).  A node's name and parent are fixed by its     *)
(* constructor and add() never creates a second child with a name that     *)
(* its parent already has, so this sequence names exactly one live object. *)
(* A client path "a/b" is the token sequence <<"a","b">>, which is what    *)
(* strings::split(clientPath, "/") yields for the paths the preconditions  *)
(* allow (non-empty segments, none of them ".").                           *)
(***************************************************************************)
EXTENDS Integers, Sequences, FiniteSets, TLC

VARIABLES
  kind,        \* Node::kind of every live node
  parent,      \* Node::parent of every live node
  children,    \* Node::children of every live node (ordered)
  allocation,  \* Node::allocation of every live node
  weight,      \* Node::weight of every live node (Option<double> cache)
  clients,     \* RandomSorter::clients : client path -> leaf node
  weights,     \* RandomSorter::weights : path -> configured weight
  total,       \* RandomSorter::total_
  aborted,     \* TRUE once a CHECK has failed (the process is gone)
  call         \* the last public call: its name, its path argument, what it
               \* returned and, for remove, the leafAllocation it captured

vars == <<kind, parent, children, allocation, weight, clients, weights,
          total, aborted, call>>

-----------------------------------------------------------------------------
(* Bounds of the model.                                                    *)

\* Client paths the callers use in the structural specification.
Paths == {<<"a">>, <<"b">>, <<"a", "b">>, <<"a", "b", "c">>}

\* Client paths the callers use in the accounting specification.
AllocPaths == {<<"a">>, <<"a", "b">>, <<"a", "b", "c">>}

\* Paths the callers use in the weight specification.
WeightPaths == {<<"a">>, <<"a", "b">>}

\* Pool units (SlaveID).
Units == {"s1", "s2"}

\* The pool unit of the specifications that use one unit only.
ContractUnit == "s1"

\* The resources the callers of those specifications add to the total and
\* remove from it.
ContractResources == [nonShared |-> 1, shared |-> 1]

\* Largest quantity one client holds, summed over the pool units.
MaxAlloc == 1

\* Largest configured weight; configured weights are 2..MaxWeight.
MaxWeight == 3

\* Largest non-shared quantity, and largest number of copies of one shared
\* resource instance, in one unit's total.
MaxTotal == 2

\* Scalar quantity of the shared resource instance.
SharedSize == 2

-----------------------------------------------------------------------------
(* Node (declared in sorter.hpp).                                          *)

INTERNAL == "INTERNAL"
ACTIVE_LEAF == "ACTIVE_LEAF"
INACTIVE_LEAF == "INACTIVE_LEAF"

root == <<>>

\* The parent of the root.
nullptr == <<"nullptr">>

\* Option<double>.
None == <<>>
Some(w) == <<w>>

Range(s) == {s[i] : i \in 1..Len(s)}

\* Node::name.
nameOf(n) == IF n = root THEN "" ELSE n[Len(n)]

\* Node::path: "" for the root, else the names from the root joined by "/".
pathOf(n) == n

\* Node::clientPath(): the path, with a trailing "." stripped.
clientPath(t, n) == IF nameOf(n) = "." THEN pathOf(t.parent[n]) ELSE pathOf(n)

\* Node::isLeaf().
isLeaf(t, n) == t.kind[n] \in {ACTIVE_LEAF, INACTIVE_LEAF}

\* Node::Allocation() : nothing allocated.
emptyAllocation == [resources |-> [u \in Units |-> 0], totals |-> 0]

\* Node::Allocation::add.
allocationAdd(a, u, r) ==
  [resources |-> [a.resources EXCEPT ![u] = @ + r], totals |-> a.totals + r]

\* The CHECKs of Node::Allocation::subtract.
allocationContains(a, u, r) == a.resources[u] >= r /\ a.totals >= r

\* Node::Allocation::subtract.
allocationSubtract(a, u, r) ==
  [resources |-> [a.resources EXCEPT ![u] = @ - r], totals |-> a.totals - r]

\* Node::Allocation::update.
allocationUpdate(a, u, old, new) ==
  [resources |-> [a.resources EXCEPT ![u] = (@ - old) + new],
   totals |-> (a.totals - old) + new]

\* new Node(name, kind, parent).
newNode(t, name, k, p) ==
  LET n == Append(p, name) IN
  [t EXCEPT !.kind = (n :> k) @@ @,
            !.parent = (n :> p) @@ @,
            !.children = (n :> <<>>) @@ @,
            !.allocation = (n :> emptyAllocation) @@ @,
            !.weight = (n :> None) @@ @,
            !.ok = @ /\ n \notin DOMAIN t.kind]

\* delete node.
deleteNode(t, n) ==
  LET keep == DOMAIN t.kind \ {n} IN
  [t EXCEPT !.kind = [x \in keep |-> t.kind[x]],
            !.parent = [x \in keep |-> t.parent[x]],
            !.children = [x \in keep |-> t.children[x]],
            !.allocation = [x \in keep |-> t.allocation[x]],
            !.weight = [x \in keep |-> t.weight[x]]]

\* Node::addChild: an inactive leaf goes to the back, anything else to the
\* front.
addChild(t, p, c) ==
  [t EXCEPT !.children[p] = IF t.kind[c] = INACTIVE_LEAF
                            THEN Append(@, c)
                            ELSE <<c>> \o @,
            !.ok = @ /\ c \notin Range(t.children[p])]

\* Node::removeChild.
removeChild(t, p, c) ==
  [t EXCEPT !.children[p] = SelectSeq(@, LAMBDA x : x # c),
            !.ok = @ /\ c \in Range(t.children[p])]

-----------------------------------------------------------------------------
(* The sorter's tree and index as one value.                               *)

Tree == [kind |-> kind, parent |-> parent, children |-> children,
         allocation |-> allocation, weight |-> weight, clients |-> clients,
         ok |-> TRUE]

\* RandomSorter::find.
find(t, path) == IF path \in DOMAIN t.clients THEN t.clients[path] ELSE nullptr

\* The CHECK of RandomSorter::find.
findChecks(t, path) == path \in DOMAIN t.clients => isLeaf(t, t.clients[path])

-----------------------------------------------------------------------------
(* RandomSorter::add(clientPath).                                          *)

\* addSplit that forgets to register the virtual leaf in clients.
addSplit_unregistered(t, current) ==
  LET oldKind == t.kind[current]
      t1 == removeChild(t, t.parent[current], current)
      t2 == [t1 EXCEPT !.kind[current] = INTERNAL]
      t3 == addChild(t2, t2.parent[current], current)
      virt == Append(current, ".")
      t4 == newNode(t3, ".", oldKind, current)
      t5 == [t4 EXCEPT !.allocation[virt] = t4.allocation[current]]
  IN addChild(t5, current, virt)

\* addSplit that gives the virtual leaf a fresh, empty allocation.
addSplit_emptyAllocation(t, current) ==
  LET oldKind == t.kind[current]
      t1 == removeChild(t, t.parent[current], current)
      t2 == [t1 EXCEPT !.kind[current] = INTERNAL]
      t3 == addChild(t2, t2.parent[current], current)
      virt == Append(current, ".")
      t4 == newNode(t3, ".", oldKind, current)
      t6 == addChild(t4, current, virt)
  IN [t6 EXCEPT !.clients = (clientPath(t6, virt) :> virt) @@ @]

\* Case (b) of phase 1: the leaf `current` becomes internal + ".".
\* Split that takes the client out of its parent's children and does not put
\* it back.
addSplit_detached(t, current) ==
  LET oldKind == t.kind[current]
      t1 == removeChild(t, t.parent[current], current)
      t2 == [t1 EXCEPT !.kind[current] = INTERNAL]
      virt == Append(current, ".")
      t4 == newNode(t2, ".", oldKind, current)
      t5 == [t4 EXCEPT !.allocation[virt] = t4.allocation[current]]
      t6 == addChild(t5, current, virt)
  IN [t6 EXCEPT !.clients = (clientPath(t6, virt) :> virt) @@ @]

\* Split whose "." leaf starts inactive instead of taking the client's kind.
addSplit_deactivated(t, current) ==
  LET t1 == removeChild(t, t.parent[current], current)
      t2 == [t1 EXCEPT !.kind[current] = INTERNAL]
      t3 == addChild(t2, t2.parent[current], current)
      virt == Append(current, ".")
      t4 == newNode(t3, ".", INACTIVE_LEAF, current)
      t5 == [t4 EXCEPT !.allocation[virt] = t4.allocation[current]]
      t6 == addChild(t5, current, virt)
  IN [t6 EXCEPT !.clients = (clientPath(t6, virt) :> virt) @@ @]

addSplit(t, current) ==
  LET oldKind == t.kind[current]
      t1 == removeChild(t, t.parent[current], current)
      t2 == [t1 EXCEPT !.kind[current] = INTERNAL]
      t3 == addChild(t2, t2.parent[current], current)
      virt == Append(current, ".")
      t4 == newNode(t3, ".", oldKind, current)
      t5 == [t4 EXCEPT !.allocation[virt] = t4.allocation[current]]
      t6 == addChild(t5, current, virt)
  IN [t6 EXCEPT !.clients = (clientPath(t6, virt) :> virt) @@ @]

RECURSIVE addPhase1(_, _, _, _)
addPhase1(t, tokens, current, i) ==
  IF i > Len(tokens)
  THEN \* Case (a).
       LET virt == Append(current, ".")
           t1 == newNode(t, ".", INACTIVE_LEAF, current)
       IN [t |-> addChild(t1, current, virt), current |-> virt, i |-> i]
  ELSE IF isLeaf(t, current)
  THEN \* Case (b).
       [t |-> addSplit(t, current), current |-> current, i |-> i]
  ELSE LET found == {c \in Range(t.children[current]) : nameOf(c) = tokens[i]}
       IN IF found = {}
          THEN \* Case (c).
               [t |-> t, current |-> current, i |-> i]
          ELSE addPhase1(t, tokens, CHOOSE c \in found : TRUE, i + 1)

RECURSIVE addPhase2(_, _, _, _)
addPhase2(t, tokens, current, i) ==
  IF i > Len(tokens)
  THEN [t |-> t, current |-> current]
  ELSE LET k == IF i = Len(tokens) THEN INACTIVE_LEAF ELSE INTERNAL
           child == Append(current, tokens[i])
           t1 == newNode(t, tokens[i], k, current)
       IN addPhase2(addChild(t1, current, child), tokens, child, i + 1)

addTree(t, path) ==
  LET p1 == addPhase1(t, path, root, 1)
      p2 == addPhase2(p1.t, path, p1.current, p1.i)
      t2 == p2.t
      current == p2.current
  IN [t2 EXCEPT !.clients = (path :> current) @@ @,
                !.ok = /\ @
                       /\ t2.children[current] = <<>>
                       /\ t2.kind[current] = INACTIVE_LEAF
                       /\ path = clientPath(t2, current)
                       /\ path \notin DOMAIN t2.clients]

-----------------------------------------------------------------------------
(* RandomSorter::remove(clientPath).                                       *)

\* parent->allocation.subtract(slaveId, resources) for every entry of
\* leafAllocation.
RECURSIVE subtractAll(_, _, _)
subtractAll(a, leafAllocation, us) ==
  IF us = {} THEN a
  ELSE LET u == CHOOSE x \in us : TRUE
       IN subtractAll(allocationSubtract(a, u, leafAllocation[u]),
                      leafAllocation, us \ {u})

\* removeSubtract that leaves the ancestor's allocation alone.
removeSubtract_skipped(t, p, leafAllocation) == t

removeSubtract(t, p, leafAllocation) ==
  LET us == {u \in Units : leafAllocation[u] > 0} IN
  [t EXCEPT !.allocation[p] = subtractAll(@, leafAllocation, us),
            !.ok = @ /\ \A u \in us :
                          t.allocation[p].resources[u] >= leafAllocation[u]]

\* removeCollapse that always makes `current` an inactive leaf.
removeCollapse_inactive(t, current, child) ==
  LET t1 == [t EXCEPT !.kind[current] = INACTIVE_LEAF]
      t2 == removeChild(t1, current, child)
      t4 == [t2 EXCEPT !.clients = (pathOf(current) :> current) @@ @]
  IN deleteNode(t4, child)

\* The branch of remove that turns `current` back into a leaf.
\* remove that leaves a "." leaf as the only child of its parent.
removeCollapse_kept(t, current, child) == t

removeCollapse(t, current, child) ==
  LET t1 == [t EXCEPT !.kind[current] = t.kind[child],
                      !.ok = /\ @
                             /\ isLeaf(t, child)
                             /\ pathOf(current) \in DOMAIN t.clients
                             /\ t.clients[pathOf(current)] = child]
      t2 == removeChild(t1, current, child)
      t3 == IF t2.kind[current] = INTERNAL
            THEN addChild(removeChild(t2, t2.parent[current], current),
                          t2.parent[current], current)
            ELSE t2
      t4 == [t3 EXCEPT !.clients = (pathOf(current) :> current) @@ @]
  IN deleteNode(t4, child)

RECURSIVE removeWalk(_, _, _)
removeWalk(t, current, leafAllocation) ==
  IF current = root THEN t
  ELSE LET p == t.parent[current]
           t1 == removeSubtract(t, p, leafAllocation)
           t2 == IF t1.children[current] = <<>>
                 THEN deleteNode(removeChild(t1, p, current), current)
                 ELSE IF Len(t1.children[current]) = 1
                         /\ nameOf(t1.children[current][1]) = "."
                 THEN removeCollapse(t1, current, t1.children[current][1])
                 ELSE t1
       IN removeWalk(t2, p, leafAllocation)

removeTree(t, path) ==
  LET current == find(t, path)
      leafAllocation == t.allocation[current].resources
      t1 == [t EXCEPT !.clients = [x \in DOMAIN @ \ {path} |-> @[x]],
                      !.ok = @ /\ findChecks(t, path)]
  IN removeWalk(t1, current, leafAllocation)

-----------------------------------------------------------------------------
(* RandomSorter::activate / deactivate.                                    *)

\* activate that flips the kind and leaves the client where it is.
activateTree_inPlace(t, path) ==
  LET client == find(t, path) IN
  IF t.kind[client] = INACTIVE_LEAF
  THEN [t EXCEPT !.kind[client] = ACTIVE_LEAF]
  ELSE t

activateTree(t, path) ==
  LET client == find(t, path) IN
  IF t.kind[client] = INACTIVE_LEAF
  THEN LET t1 == [t EXCEPT !.kind[client] = ACTIVE_LEAF]
       IN addChild(removeChild(t1, t1.parent[client], client),
                   t1.parent[client], client)
  ELSE t

deactivateTree(t, path) ==
  LET client == find(t, path) IN
  IF t.kind[client] = ACTIVE_LEAF
  THEN LET t1 == [t EXCEPT !.kind[client] = INACTIVE_LEAF]
       IN addChild(removeChild(t1, t1.parent[client], client),
                   t1.parent[client], client)
  ELSE t

-----------------------------------------------------------------------------
(* RandomSorter::sort.                                                     *)

DefaultWeight == 1

\* weights.get(path).getOrElse(1.0).
configuredWeight(w, path) ==
  IF path \in DOMAIN w THEN w[path] ELSE DefaultWeight

\* RandomSorter::getWeight: the value it returns.
getWeight(t, w, n) ==
  IF t.weight[n] = None THEN configuredWeight(w, pathOf(n)) ELSE t.weight[n][1]

\* RandomSorter::getWeight: the cache it leaves behind.
getWeightCache(t, w, n) == [t EXCEPT !.weight[n] = Some(getWeight(t, w, n))]

\* std::find_if(children, kind == INACTIVE_LEAF): the index of the first
\* inactive leaf, or one past the end.
inactiveBegin(t, n) ==
  LET idx == {i \in 1..Len(t.children[n]) :
                t.kind[t.children[n][i]] = INACTIVE_LEAF}
  IN IF idx = {} THEN Len(t.children[n]) + 1
     ELSE CHOOSE i \in idx : \A j \in idx : i <= j

\* All orders of the elements of a sequence without repetitions.
Permutations_(s) ==
  {q \in [1..Len(s) -> Range(s)] : \A i, j \in 1..Len(s) : i # j => q[i] # q[j]}

\* weightedShuffle (utils.hpp): with positive weights every order of the
\* range can come out.
weightedShuffle(s, ws) == Permutations_(s)

RECURSIVE cacheWeights(_, _, _, _)
cacheWeights(t, w, n, i) ==
  IF i >= inactiveBegin(t, n) THEN t
  ELSE cacheWeights(getWeightCache(t, w, t.children[n][i]), w, n, i + 1)

RECURSIVE shuffleTree(_, _, _)
RECURSIVE shuffleChildren(_, _, _, _)

\* shuffleTree that shuffles all the children of a node, the inactive leaves
\* included.
shuffleTree_all(t, w, n) ==
  LET t1 == cacheWeights(t, w, n, 1)
      shuffled == {[t1 EXCEPT !.children[n] = q] :
                     q \in Permutations_(t1.children[n])}
  IN UNION {shuffleChildren({t2}, w, n, 1) : t2 \in shuffled}

\* The trees shuffleTree(node) can leave behind.
shuffleTree(t, w, n) ==
  LET ib == inactiveBegin(t, n)
      t1 == cacheWeights(t, w, n, 1)
      prefix == SubSeq(t1.children[n], 1, ib - 1)
      rest == SubSeq(t1.children[n], ib, Len(t1.children[n]))
      ws == [i \in 1..(ib - 1) |-> getWeight(t1, w, t1.children[n][i])]
      shuffled == {[t1 EXCEPT !.children[n] = q \o rest] :
                     q \in weightedShuffle(prefix, ws)}
  IN UNION {shuffleChildren({t2}, w, n, 1) : t2 \in shuffled}

\* The loop over node->children that follows the shuffle.
shuffleChildren(ts, w, n, i) ==
  LET t == CHOOSE x \in ts : TRUE IN
  IF i > Len(t.children[n]) THEN ts
  ELSE LET child == t.children[n][i] IN
       IF t.kind[child] = INTERNAL
       THEN shuffleChildren(UNION {shuffleTree(x, w, child) : x \in ts},
                            w, n, i + 1)
       ELSE IF t.kind[child] = INACTIVE_LEAF THEN ts
       ELSE shuffleChildren(ts, w, n, i + 1)

RECURSIVE listClients(_, _)
RECURSIVE listChildren(_, _, _)

\* listClients that appends what it collected below a node back to front.
listClients_backwards(t, n) ==
  LET s == listChildren(t, n, 1) IN [i \in 1..Len(s) |-> s[Len(s) + 1 - i]]

\* The client paths listClients(node) appends to the result.
listClients(t, n) == listChildren(t, n, 1)

listChildren(t, n, i) ==
  IF i > Len(t.children[n]) THEN <<>>
  ELSE LET child == t.children[n][i] IN
       IF t.kind[child] = ACTIVE_LEAF
       THEN <<clientPath(t, child)>> \o listChildren(t, n, i + 1)
       ELSE IF t.kind[child] = INACTIVE_LEAF THEN <<>>
       ELSE listClients(t, child) \o listChildren(t, n, i + 1)

-----------------------------------------------------------------------------
(* RandomSorter::activeInternalNodes.                                      *)

RECURSIVE searchActiveInternal(_, _, _)
RECURSIVE searchChildren(_, _, _, _, _)

\* Loop that stops at the first child whose subtree is active.
searchChildren_untilActive(t, node, i, active, result) ==
  IF i > Len(t.children[node]) \/ active
  THEN [active |-> active, result |-> result]
  ELSE LET r == searchActiveInternal(t, t.children[node][i], result)
       IN searchChildren(t, node, i + 1, r.active, r.result)

\* The foreach over node->children: every child is searched.
searchChildren(t, node, i, active, result) ==
  IF i > Len(t.children[node])
  THEN [active |-> active, result |-> result]
  ELSE LET r == searchActiveInternal(t, t.children[node][i], result)
       IN searchChildren(t, node, i + 1, active \/ r.active, r.result)

\* Whether the subtree at node holds an active leaf, and the result set with
\* the internal nodes of that subtree that do.
searchActiveInternal(t, node, result) ==
  IF t.kind[node] = ACTIVE_LEAF
  THEN [active |-> TRUE, result |-> result]
  ELSE IF t.kind[node] = INACTIVE_LEAF
  THEN [active |-> FALSE, result |-> result]
  ELSE LET r == searchChildren(t, node, 1, FALSE, result)
       IN [active |-> r.active,
           result |-> IF r.active THEN r.result \cup {node} ELSE r.result]

activeInternalNodes(t) == searchActiveInternal(t, root, {}).result

-----------------------------------------------------------------------------
(* The state after construction.                                           *)

emptyTotal == [resources |-> [u \in Units |-> [nonShared |-> 0, shared |-> 0]],
               totals |-> 0]

Init ==
  /\ kind = (root :> INTERNAL)
  /\ parent = (root :> nullptr)
  /\ children = (root :> <<>>)
  /\ allocation = (root :> emptyAllocation)
  /\ weight = (root :> None)
  /\ clients = <<>>
  /\ weights = <<>>
  /\ total = emptyTotal
  /\ aborted = FALSE
  /\ call = [op |-> "new", path |-> <<>>, ret |-> <<>>, held |-> <<>>]

\* The tree and index of the next state are those of t.
setTree(t) ==
  /\ kind' = t.kind
  /\ parent' = t.parent
  /\ children' = t.children
  /\ allocation' = t.allocation
  /\ weight' = t.weight
  /\ clients' = t.clients
  /\ aborted' = ~t.ok

-----------------------------------------------------------------------------
(* The public calls.                                                       *)

add(path) ==
  /\ ~aborted
  /\ path \notin DOMAIN clients
  /\ setTree(addTree(Tree, path))
  /\ call' = [op |-> "add", path |-> path, ret |-> <<>>, held |-> <<>>]
  /\ UNCHANGED <<weights, total>>

remove(path) ==
  /\ ~aborted
  /\ path \in DOMAIN clients
  /\ setTree(removeTree(Tree, path))
  /\ call' = [op |-> "remove", path |-> path, ret |-> <<>>,
              held |-> <<allocation[clients[path]].resources>>]
  /\ UNCHANGED <<weights, total>>

activate(path) ==
  /\ ~aborted
  /\ path \in DOMAIN clients
  /\ setTree(activateTree([Tree EXCEPT !.ok = findChecks(Tree, path)], path))
  /\ call' = [op |-> "activate", path |-> path, ret |-> <<>>, held |-> <<>>]
  /\ UNCHANGED <<weights, total>>

deactivate(path) ==
  /\ ~aborted
  /\ path \in DOMAIN clients
  /\ setTree(deactivateTree([Tree EXCEPT !.ok = findChecks(Tree, path)], path))
  /\ call' = [op |-> "deactivate", path |-> path, ret |-> <<>>, held |-> <<>>]
  /\ UNCHANGED <<weights, total>>

sort ==
  /\ ~aborted
  /\ \E t \in shuffleTree(Tree, weights, root) :
       /\ setTree(t)
       /\ call' = [op |-> "sort", path |-> <<>>, ret |-> listClients(t, root),
                   held |-> <<>>]
  /\ UNCHANGED <<weights, total>>

-----------------------------------------------------------------------------
(* RandomSorter::allocated / update / unallocated: the walk from the       *)
(* client's leaf to the root, the root included.                           *)

RECURSIVE allocatedWalk(_, _, _, _)
allocatedWalk(t, current, u, r) ==
  IF current = nullptr THEN t
  ELSE allocatedWalk([t EXCEPT !.allocation[current] = allocationAdd(@, u, r)],
                     t.parent[current], u, r)

allocatedTree(t, path, u, r) == allocatedWalk(t, find(t, path), u, r)

RECURSIVE updateWalk(_, _, _, _, _)
updateWalk(t, current, u, old, new) ==
  IF current = nullptr THEN t
  ELSE updateWalk(
         [t EXCEPT !.allocation[current] = allocationUpdate(@, u, old, new),
                   !.ok = @ /\ allocationContains(t.allocation[current], u, old)],
         t.parent[current], u, old, new)

updateTree(t, path, u, old, new) == updateWalk(t, find(t, path), u, old, new)

RECURSIVE unallocatedWalk(_, _, _, _)
unallocatedWalk(t, current, u, r) ==
  IF current = nullptr THEN t
  ELSE unallocatedWalk(
         [t EXCEPT !.allocation[current] = allocationSubtract(@, u, r),
                   !.ok = @ /\ allocationContains(t.allocation[current], u, r)],
         t.parent[current], u, r)

unallocatedTree(t, path, u, r) == unallocatedWalk(t, find(t, path), u, r)

\* allocated that also counts the resources in the global total.
allocated_counted(path, u, r) ==
  /\ ~aborted
  /\ path \in DOMAIN clients
  /\ allocation[clients[path]].totals + r <= MaxAlloc
  /\ setTree(allocatedTree([Tree EXCEPT !.ok = findChecks(Tree, path)],
                           path, u, r))
  /\ call' = [op |-> "allocated", path |-> path, ret |-> <<>>, held |-> <<>>]
  /\ total' = [total EXCEPT !.resources[u].nonShared = @ + r,
                            !.totals = @ + r]
  /\ UNCHANGED weights

allocated(path, u, r) ==
  /\ ~aborted
  /\ path \in DOMAIN clients
  /\ allocation[clients[path]].totals + r <= MaxAlloc
  /\ setTree(allocatedTree([Tree EXCEPT !.ok = findChecks(Tree, path)],
                           path, u, r))
  /\ call' = [op |-> "allocated", path |-> path, ret |-> <<>>, held |-> <<>>]
  /\ UNCHANGED <<weights, total>>

update(path, u, old, new) ==
  /\ ~aborted
  /\ path \in DOMAIN clients
  /\ old <= allocation[clients[path]].resources[u]
  /\ (allocation[clients[path]].totals - old) + new <= MaxAlloc
  /\ setTree(updateTree([Tree EXCEPT !.ok = findChecks(Tree, path)],
                        path, u, old, new))
  /\ call' = [op |-> "update", path |-> path, ret |-> <<>>, held |-> <<>>]
  /\ UNCHANGED <<weights, total>>

unallocated(path, u, r) ==
  /\ ~aborted
  /\ path \in DOMAIN clients
  /\ r <= allocation[clients[path]].resources[u]
  /\ setTree(unallocatedTree([Tree EXCEPT !.ok = findChecks(Tree, path)],
                             path, u, r))
  /\ call' = [op |-> "unallocated", path |-> path, ret |-> <<>>, held |-> <<>>]
  /\ UNCHANGED <<weights, total>>

-----------------------------------------------------------------------------
(* RandomSorter::updateWeight.                                             *)

updateWeightTree(t, path, w) ==
  LET node == find(t, path) IN
  IF node = nullptr THEN t
  ELSE LET target == IF nameOf(node) = "." THEN t.parent[node] ELSE node
       IN [t EXCEPT !.weight[target] = Some(w),
                    !.ok = @ /\ target # nullptr /\ path = pathOf(target)]

updateWeight(path, w) ==
  /\ ~aborted
  /\ weights' = (path :> w) @@ weights
  /\ setTree(updateWeightTree([Tree EXCEPT !.ok = findChecks(Tree, path)],
                              path, w))
  /\ call' = [op |-> "updateWeight", path |-> path, ret |-> <<w>>, held |-> <<>>]
  /\ UNCHANGED total

-----------------------------------------------------------------------------
(* The global total: RandomSorter::add / remove (SlaveID, Resources).      *)
(* A Resources value holds a quantity of one non-shared scalar resource    *)
(* and a number of copies of one shared resource instance.                 *)

\* Resources::empty().
resEmpty(r) == r.nonShared = 0 /\ r.shared = 0

\* Resources::shared() and Resources::nonShared().
resShared(r) == [nonShared |-> 0, shared |-> r.shared]
resNonShared(r) == [nonShared |-> r.nonShared, shared |-> 0]

\* Resources::contains(const Resources&).
resContains(a, b) == a.nonShared >= b.nonShared /\ a.shared >= b.shared

\* Resources::contains(const Resource&) for the shared resource instance.
resContainsShared(a) == a.shared >= 1

\* operator+= and operator-=.
resPlus(a, b) ==
  [nonShared |-> a.nonShared + b.nonShared, shared |-> a.shared + b.shared]
resMinus(a, b) ==
  [nonShared |-> a.nonShared - b.nonShared, shared |-> a.shared - b.shared]

\* ResourceQuantities::fromScalarResources(r.scalars()): every resource
\* object of r counts its scalar once, however many copies of it r shares.
fromScalarResources(r) ==
  r.nonShared + (IF r.shared > 0 THEN SharedSize ELSE 0)

\* addTotalOp that counts every added shared resource.
addTotalOp_unfiltered(tot, u, r) ==
  IF resEmpty(r) THEN tot
  ELSE [resources |-> [tot.resources EXCEPT ![u] = resPlus(@, r)],
        totals |-> tot.totals
                     + fromScalarResources(resPlus(resNonShared(r), resShared(r)))]

addTotalOp(tot, u, r) ==
  IF resEmpty(r) THEN tot
  ELSE LET newShared == IF ~resContainsShared(tot.resources[u])
                        THEN resShared(r)
                        ELSE resShared([nonShared |-> 0, shared |-> 0])
           scalarQuantities ==
             fromScalarResources(resPlus(resNonShared(r), newShared))
       IN [resources |-> [tot.resources EXCEPT ![u] = resPlus(@, r)],
           totals |-> tot.totals + scalarQuantities]

removeTotalOp(tot, u, r) ==
  IF resEmpty(r) THEN tot
  ELSE LET left == resMinus(tot.resources[u], r)
           absentShared == IF ~resContainsShared(left)
                           THEN resShared(r)
                           ELSE resShared([nonShared |-> 0, shared |-> 0])
           scalarQuantities ==
             fromScalarResources(resPlus(resNonShared(r), absentShared))
       IN [resources |-> [tot.resources EXCEPT ![u] = left],
           totals |-> tot.totals - scalarQuantities]

\* The CHECK on total_.totals in remove(SlaveID, Resources).
removeTotalChecks(tot, u, r) ==
  resEmpty(r) \/
    LET left == resMinus(tot.resources[u], r)
        absentShared == IF ~resContainsShared(left)
                        THEN resShared(r)
                        ELSE resShared([nonShared |-> 0, shared |-> 0])
    IN tot.totals >= fromScalarResources(resPlus(resNonShared(r), absentShared))

\* The Resources values the callers pass.
ResourcesArgs == [nonShared : 0..MaxTotal, shared : 0..MaxTotal]

addTotal(u, r) ==
  /\ ~aborted
  /\ resPlus(total.resources[u], r) \in ResourcesArgs
  /\ total' = addTotalOp(total, u, r)
  /\ call' = [op |-> "addTotal", path |-> <<u>>, ret |-> <<r>>,
              held |-> <<>>]
  /\ UNCHANGED <<kind, parent, children, allocation, weight, clients,
                 weights, aborted>>

removeTotal(u, r) ==
  /\ ~aborted
  /\ resContains(total.resources[u], r)
  /\ total' = removeTotalOp(total, u, r)
  /\ aborted' = ~removeTotalChecks(total, u, r)
  /\ call' = [op |-> "removeTotal", path |-> <<u>>, ret |-> <<r>>,
              held |-> <<>>]
  /\ UNCHANGED <<kind, parent, children, allocation, weight, clients, weights>>

-----------------------------------------------------------------------------
(* Structural specification: the calls that change the shape of the tree.  *)

NextTree ==
  \/ \E path \in Paths : add(path)
  \/ \E path \in Paths : remove(path)
  \/ \E path \in Paths : activate(path)
  \/ \E path \in Paths : deactivate(path)
  \/ sort

SpecTree == Init /\ [][NextTree]_vars

-----------------------------------------------------------------------------
(* Accounting specification: the calls that change node allocations.       *)

NextAlloc ==
  \/ \E path \in AllocPaths : add(path)
  \/ \E path \in AllocPaths : remove(path)
  \/ \E path \in AllocPaths : activate(path)
  \/ \E path \in AllocPaths : deactivate(path)
  \/ \E path \in AllocPaths, u \in Units, r \in 1..MaxAlloc :
       allocated(path, u, r)
  \/ \E path \in AllocPaths, u \in Units, old \in 0..MaxAlloc,
        new \in 0..MaxAlloc : old # new /\ update(path, u, old, new)
  \/ \E path \in AllocPaths, u \in Units, r \in 1..MaxAlloc :
       unallocated(path, u, r)

SpecAlloc == Init /\ [][NextAlloc]_vars

-----------------------------------------------------------------------------
(* Weight specification: the calls that read or write weights.             *)

NextWeight ==
  \/ \E path \in WeightPaths : add(path)
  \/ \E path \in WeightPaths : remove(path)
  \/ \E path \in WeightPaths : activate(path)
  \/ \E path \in WeightPaths : deactivate(path)
  \/ \E path \in WeightPaths, w \in 2..MaxWeight : updateWeight(path, w)
  \/ sort

SpecWeight == Init /\ [][NextWeight]_vars

-----------------------------------------------------------------------------
(* Total specification: the calls that change the global total.            *)

NextTotal ==
  \/ \E u \in Units, r \in ResourcesArgs : addTotal(u, r)
  \/ \E u \in Units, r \in ResourcesArgs : removeTotal(u, r)

SpecTotal == Init /\ [][NextTotal]_vars

-----------------------------------------------------------------------------
(* Sorting specification: clients that hold resources and are sorted.      *)

NextSort ==
  \/ \E path \in AllocPaths : add(path)
  \/ \E path \in AllocPaths : remove(path)
  \/ \E path \in AllocPaths : activate(path)
  \/ \E path \in AllocPaths : deactivate(path)
  \/ \E path \in AllocPaths, r \in 1..MaxAlloc :
       allocated(path, ContractUnit, r)
  \/ \E path \in AllocPaths, r \in 1..MaxAlloc :
       unallocated(path, ContractUnit, r)
  \/ sort

SpecSort == Init /\ [][NextSort]_vars

-----------------------------------------------------------------------------
(* Frame specification: the client calls next to the calls on the total.   *)

NextFrame ==
  \/ \E path \in WeightPaths : add(path)
  \/ \E path \in WeightPaths : remove(path)
  \/ \E path \in WeightPaths : activate(path)
  \/ \E path \in WeightPaths : deactivate(path)
  \/ \E path \in WeightPaths : updateWeight(path, MaxWeight)
  \/ \E path \in WeightPaths, r \in 1..MaxAlloc :
       allocated(path, ContractUnit, r)
  \/ \E path \in WeightPaths, old \in 1..MaxAlloc :
       update(path, ContractUnit, old, 0)
  \/ \E path \in WeightPaths, r \in 1..MaxAlloc :
       unallocated(path, ContractUnit, r)
  \/ sort
  \/ addTotal(ContractUnit, ContractResources)
  \/ removeTotal(ContractUnit, ContractResources)

SpecFrame == Init /\ [][NextFrame]_vars

-----------------------------------------------------------------------------
(* Shape specification: the calls with a CHECK on the shape of the tree.   *)

NextShape ==
  \/ \E path \in Paths : add(path)
  \/ \E path \in Paths : remove(path)
  \/ \E path \in Paths : activate(path)
  \/ \E path \in Paths : deactivate(path)
  \/ \E path \in Paths : updateWeight(path, MaxWeight)

SpecShape == Init /\ [][NextShape]_vars

-----------------------------------------------------------------------------
(* The public calls with the CHECKs on their arguments: a call that breaks *)
(* its precondition stops at the failed CHECK, with the state as it is at  *)
(* that point.                                                             *)

\* add that checks !clients.contains(clientPath) only where it registers the
\* new client.
addChecked_late(t, path) == addTree(t, path)

\* add: CHECK(!clients.contains(clientPath)) comes first.
addChecked(t, path) ==
  IF path \in DOMAIN t.clients THEN [t EXCEPT !.ok = FALSE]
  ELSE addTree(t, path)

\* CHECK_NOTNULL(find(clientPath)), the first statement of every
\* client-scoped call.
findNotNull(t, path) == find(t, path) # nullptr /\ findChecks(t, path)

removeChecked(t, path) ==
  IF ~findNotNull(t, path) THEN [t EXCEPT !.ok = FALSE]
  ELSE removeTree(t, path)

activateChecked(t, path) ==
  IF ~findNotNull(t, path) THEN [t EXCEPT !.ok = FALSE]
  ELSE activateTree(t, path)

deactivateChecked(t, path) ==
  IF ~findNotNull(t, path) THEN [t EXCEPT !.ok = FALSE]
  ELSE deactivateTree(t, path)

allocatedChecked(t, path, u, r) ==
  IF ~findNotNull(t, path) THEN [t EXCEPT !.ok = FALSE]
  ELSE allocatedTree(t, path, u, r)

updateChecked(t, path, u, old, new) ==
  IF ~findNotNull(t, path) THEN [t EXCEPT !.ok = FALSE]
  ELSE updateTree(t, path, u, old, new)

unallocatedChecked(t, path, u, r) ==
  IF ~findNotNull(t, path) THEN [t EXCEPT !.ok = FALSE]
  ELSE unallocatedTree(t, path, u, r)

\* allocation(clientPath): the client's per-unit resources.
allocationOf(t, path) ==
  IF ~findNotNull(t, path) THEN [ok |-> FALSE, ret |-> <<>>]
  ELSE [ok |-> TRUE, ret |-> <<t.allocation[find(t, path)].resources>>]

\* allocation(clientPath, slaveId): empty when the client holds nothing there.
allocationOn(t, path, u) ==
  IF ~findNotNull(t, path) THEN [ok |-> FALSE, ret |-> <<>>]
  ELSE [ok |-> TRUE, ret |-> <<t.allocation[find(t, path)].resources[u]>>]

\* allocationScalarQuantities(clientPath).
allocationScalarQuantities(t, path) ==
  IF ~findNotNull(t, path) THEN [ok |-> FALSE, ret |-> <<>>]
  ELSE [ok |-> TRUE, ret |-> <<t.allocation[find(t, path)].totals>>]

\* remove(SlaveID, Resources) with its CHECKs on total_.resources.
removeTotalChecked(tot, u, r) ==
  IF resEmpty(r) THEN [tot |-> tot, ok |-> TRUE]
  ELSE IF ~resContains(tot.resources[u], r) THEN [tot |-> tot, ok |-> FALSE]
  ELSE [tot |-> removeTotalOp(tot, u, r), ok |-> removeTotalChecks(tot, u, r)]

callRecord(op, path, ret) ==
  [op |-> op, path |-> path, ret |-> ret, held |-> <<>>]

anyAdd(path) ==
  /\ ~aborted
  /\ setTree(addChecked(Tree, path))
  /\ call' = callRecord("add", path, <<>>)
  /\ UNCHANGED <<weights, total>>

anyRemove(path) ==
  /\ ~aborted
  /\ setTree(removeChecked(Tree, path))
  /\ call' = callRecord("remove", path, <<>>)
  /\ UNCHANGED <<weights, total>>

anyActivate(path) ==
  /\ ~aborted
  /\ setTree(activateChecked(Tree, path))
  /\ call' = callRecord("activate", path, <<>>)
  /\ UNCHANGED <<weights, total>>

anyDeactivate(path) ==
  /\ ~aborted
  /\ setTree(deactivateChecked(Tree, path))
  /\ call' = callRecord("deactivate", path, <<>>)
  /\ UNCHANGED <<weights, total>>

anyAllocated(path, u, r) ==
  /\ ~aborted
  /\ path \in DOMAIN clients => allocation[clients[path]].totals + r <= MaxAlloc
  /\ setTree(allocatedChecked(Tree, path, u, r))
  /\ call' = callRecord("allocated", path, <<>>)
  /\ UNCHANGED <<weights, total>>

anyUpdate(path, u, old, new) ==
  /\ ~aborted
  /\ path \in DOMAIN clients =>
       /\ old <= allocation[clients[path]].resources[u]
       /\ (allocation[clients[path]].totals - old) + new <= MaxAlloc
  /\ setTree(updateChecked(Tree, path, u, old, new))
  /\ call' = callRecord("update", path, <<>>)
  /\ UNCHANGED <<weights, total>>

anyUnallocated(path, u, r) ==
  /\ ~aborted
  /\ path \in DOMAIN clients => r <= allocation[clients[path]].resources[u]
  /\ setTree(unallocatedChecked(Tree, path, u, r))
  /\ call' = callRecord("unallocated", path, <<>>)
  /\ UNCHANGED <<weights, total>>

anyAllocation(path) ==
  /\ ~aborted
  /\ aborted' = ~allocationOf(Tree, path).ok
  /\ call' = callRecord("allocation", path, allocationOf(Tree, path).ret)
  /\ UNCHANGED <<kind, parent, children, allocation, weight, clients,
                 weights, total>>

anyAllocationOn(path, u) ==
  /\ ~aborted
  /\ aborted' = ~allocationOn(Tree, path, u).ok
  /\ call' = callRecord("allocationOn", path, allocationOn(Tree, path, u).ret)
  /\ UNCHANGED <<kind, parent, children, allocation, weight, clients,
                 weights, total>>

anyAllocationScalarQuantities(path) ==
  /\ ~aborted
  /\ aborted' = ~allocationScalarQuantities(Tree, path).ok
  /\ call' = callRecord("allocationScalarQuantities", path,
                        allocationScalarQuantities(Tree, path).ret)
  /\ UNCHANGED <<kind, parent, children, allocation, weight, clients,
                 weights, total>>

\* RandomSorter::contains.
contains(path) ==
  /\ ~aborted
  /\ aborted' = ~findChecks(Tree, path)
  /\ call' = callRecord("contains", path, <<find(Tree, path) # nullptr>>)
  /\ UNCHANGED <<kind, parent, children, allocation, weight, clients,
                 weights, total>>

anyRemoveTotal(u, r) ==
  /\ ~aborted
  /\ total' = removeTotalChecked(total, u, r).tot
  /\ aborted' = ~removeTotalChecked(total, u, r).ok
  /\ call' = callRecord("removeTotal", <<u>>, <<r>>)
  /\ UNCHANGED <<kind, parent, children, allocation, weight, clients, weights>>

-----------------------------------------------------------------------------
(* Contract specification: every public call, with and without its         *)
(* precondition.                                                           *)

NextContract ==
  \/ \E path \in WeightPaths : anyAdd(path)
  \/ \E path \in WeightPaths : anyRemove(path)
  \/ \E path \in WeightPaths : anyActivate(path)
  \/ \E path \in WeightPaths : anyDeactivate(path)
  \/ \E path \in WeightPaths : anyAllocated(path, ContractUnit, 1)
  \/ \E path \in WeightPaths : anyUpdate(path, ContractUnit, 1, 0)
  \/ \E path \in WeightPaths : anyUnallocated(path, ContractUnit, 1)
  \/ \E path \in WeightPaths : anyAllocation(path)
  \/ \E path \in WeightPaths : anyAllocationOn(path, ContractUnit)
  \/ \E path \in WeightPaths : anyAllocationScalarQuantities(path)
  \/ \E path \in WeightPaths : updateWeight(path, MaxWeight)
  \/ \E path \in WeightPaths : contains(path)
  \/ addTotal(ContractUnit, ContractResources)
  \/ anyRemoveTotal(ContractUnit, ContractResources)

SpecContract == Init /\ [][NextContract]_vars

-----------------------------------------------------------------------------
(* Properties.                                                             *)

Nodes == DOMAIN kind

\* The clients whose leaf is active.
activeClients == {c \in DOMAIN clients : kind[clients[c]] = ACTIVE_LEAF}

\* In the children of n no inactive leaf precedes an internal node or an
\* active leaf.
inactiveSuffix(t, n) ==
  \A i, j \in 1..Len(t.children[n]) :
    (i < j /\ t.kind[t.children[n][i]] = INACTIVE_LEAF)
      => t.kind[t.children[n][j]] = INACTIVE_LEAF

childrenOrdered(t) == \A n \in DOMAIN t.kind : inactiveSuffix(t, n)

\* No CHECK fails for calls that respect the preconditions.
NoAbort == ~aborted

\* C1: in every node's children list all Internal and ActiveLeaf children
\* come before all InactiveLeaf children, after any sequence of add, remove,
\* activate, deactivate and sort calls.
C1_InactiveLeavesLast == childrenOrdered(Tree)

\* C2: what sort() returns holds every active client exactly once and
\* nothing else.
C2_SortReturnsActiveClients ==
  call.op = "sort" =>
    /\ Range(call.ret) = activeClients
    /\ Len(call.ret) = Cardinality(activeClients)

\* The nodes of the subtree below n, n included, by the children lists.
RECURSIVE subtree(_, _)
subtree(t, n) ==
  {n} \cup UNION {subtree(t, t.children[n][i]) : i \in 1..Len(t.children[n])}

leavesBelow(t, n) == {m \in subtree(t, n) : isLeaf(t, m)}

RECURSIVE sumOver(_, _)
sumOver(S, f) ==
  IF S = {} THEN 0
  ELSE LET x == CHOOSE y \in S : TRUE IN f[x] + sumOver(S \ {x}, f)

\* C3: the allocation of every Internal node, the root included, is per pool
\* unit and in its scalar total the sum of the allocations of the leaves of
\* its subtree; the root's total is the sum over all clients.
C3_AllocationIsSumOfLeaves ==
  /\ \A n \in Nodes : kind[n] = INTERNAL =>
       /\ \A u \in Units :
            allocation[n].resources[u] =
              sumOver(leavesBelow(Tree, n),
                      [m \in Nodes |-> allocation[m].resources[u]])
       /\ allocation[n].totals =
            sumOver(leavesBelow(Tree, n), [m \in Nodes |-> allocation[m].totals])
  /\ allocation[root].totals =
       sumOver(DOMAIN clients,
               [c \in DOMAIN clients |-> allocation[clients[c]].totals])

\* remove("a/b") of a client that held resources has collapsed a, which
\* holds resources, into a leaf again.
C3_Witness ==
  /\ call.op = "remove" /\ call.path = <<"a", "b">>
  /\ \E u \in Units : call.held[1][u] > 0
  /\ <<"a">> \in DOMAIN clients /\ clients[<<"a">>] = <<"a">>
  /\ \E u \in Units : allocation[<<"a">>].resources[u] > 0

\* Every entry of clients is a leaf of the tree whose clientPath() is the
\* key, and no two keys share a node.
clientsIndexValid ==
  /\ \A p \in DOMAIN clients :
       /\ clients[p] \in subtree(Tree, root)
       /\ clients[p] \in Nodes
       /\ isLeaf(Tree, clients[p])
       /\ clientPath(Tree, clients[p]) = p
  /\ \A p, q \in DOMAIN clients : p # q => clients[p] # clients[q]
  /\ leavesBelow(Tree, root) = {clients[p] : p \in DOMAIN clients}

\* add(p) adds the key p and remove(p) takes the key p away; no call changes
\* any other key.
clientsIndexStep ==
  /\ call'.op = "add" =>
       /\ call'.path \notin DOMAIN clients
       /\ DOMAIN clients' = DOMAIN clients \cup {call'.path}
  /\ call'.op = "remove" => DOMAIN clients' = DOMAIN clients \ {call'.path}
  /\ call'.op \notin {"add", "remove"} => DOMAIN clients' = DOMAIN clients

\* C4: clients has exactly one entry per live client, each a leaf of the tree
\* with clientPath() equal to its key; contains(p) changes only by add(p) and
\* remove(p).
C4_ClientsIndex == []clientsIndexValid /\ [][clientsIndexStep]_vars

\* add("a/b/c") has split the client a/b, while a is a client too.
C4_Witness ==
  /\ call.op = "add" /\ call.path = <<"a", "b", "c">>
  /\ <<"a", "b">> \in DOMAIN clients
  /\ clients[<<"a", "b">>] = <<"a", "b", ".">>
  /\ <<"a">> \in DOMAIN clients

\* C5: a call changes the allocation of a client only if it is allocated,
\* update or unallocated for that client, and its activity only if it is
\* activate or deactivate for it; so a split keeps both.
C5_step ==
  \A c \in DOMAIN clients \cap DOMAIN clients' :
    /\ ~(call'.op \in {"allocated", "update", "unallocated"} /\ call'.path = c)
         => allocation'[clients'[c]] = allocation[clients[c]]
    /\ ~(call'.op \in {"activate", "deactivate"} /\ call'.path = c)
         => kind'[clients'[c]] = kind[clients[c]]

C5_SplitKeepsClient == [][C5_step]_vars

\* add("a/b") has split the active client a, which holds resources.
C5_Witness ==
  /\ call.op = "add" /\ call.path = <<"a", "b">>
  /\ <<"a", "b", "c">> \notin DOMAIN clients
  /\ <<"a">> \in DOMAIN clients /\ clients[<<"a">>] = <<"a", ".">>
  /\ kind[<<"a", ".">>] = ACTIVE_LEAF
  /\ allocation[<<"a", ".">>].totals > 0

\* The proper ancestors of n, the root excluded.
RECURSIVE ancestors(_, _)
ancestors(t, n) ==
  IF n = root \/ t.parent[n] = root THEN {}
  ELSE {t.parent[n]} \cup ancestors(t, t.parent[n])

\* C6: remove(c) deletes c's leaf and every ancestor left without a client;
\* an ancestor left with its virtual leaf only becomes a leaf of the virtual
\* leaf's kind and allocation, registered in clients under its own path.
C6_step ==
  call'.op = "remove" =>
    LET c == call'.path
        leaf == clients[c]
        left(n) == {d \in DOMAIN clients \ {c} : clients[d] \in subtree(Tree, n)}
    IN /\ leaf \notin DOMAIN kind'
       /\ DOMAIN clients' = DOMAIN clients \ {c}
       /\ \A n \in ancestors(Tree, leaf) :
            IF left(n) = {} THEN n \notin DOMAIN kind'
            ELSE IF \E d \in left(n) : left(n) = {d} /\ parent[clients[d]] = n
                                       /\ nameOf(clients[d]) = "."
            THEN LET virt == clients[pathOf(n)] IN
                 /\ virt \notin DOMAIN kind'
                 /\ n \in DOMAIN kind'
                 /\ kind'[n] = kind[virt]
                 /\ children'[n] = <<>>
                 /\ clients'[pathOf(n)] = n
                 /\ allocation'[n] = allocation[virt]
            ELSE n \in DOMAIN kind' /\ kind'[n] = INTERNAL

C6_Collapse == [][C6_step]_vars

\* remove("a/b/c") has collapsed the active client a/b, which holds
\* resources, below the internal node a.
C6_Witness ==
  /\ call.op = "remove" /\ call.path = <<"a", "b", "c">>
  /\ <<"a", "b">> \in DOMAIN clients /\ clients[<<"a", "b">>] = <<"a", "b">>
  /\ kind[<<"a", "b">>] = ACTIVE_LEAF
  /\ allocation[<<"a", "b">>].totals > 0
  /\ <<"a">> \in DOMAIN clients

\* Two trees with the same nodes, kinds, parents, sets of children, clients
\* and allocations.
sameShape(t1, t2) ==
  /\ t1.kind = t2.kind
  /\ t1.parent = t2.parent
  /\ \A n \in DOMAIN t1.children :
       Range(t1.children[n]) = Range(t2.children[n])
  /\ t1.clients = t2.clients
  /\ t1.allocation = t2.allocation

\* C7: add(p) followed by remove(p), for p not a client, gives back the
\* nodes, kinds, parents, sets of children, clients index and allocations,
\* and children lists that were ordered are still ordered.
C7_AddRemoveRoundTrip ==
  \A p \in Paths \ DOMAIN clients :
    childrenOrdered(Tree) =>
      LET t == removeTree(addTree(Tree, p), p)
      IN sameShape(t, Tree) /\ childrenOrdered(t)

\* C8: after updateWeight(path, w) the override table holds w for path and
\* every node at path resolves to weight w.
C8_UpdateWeightReachesNode ==
  call.op = "updateWeight" =>
    /\ call.path \in DOMAIN weights /\ weights[call.path] = call.ret[1]
    /\ \A n \in Nodes : pathOf(n) = call.path =>
         getWeight(Tree, weights, n) = call.ret[1]

\* C9: after add(x) the node at x resolves to the weight configured for x,
\* or to the default if none is configured.
C9_WeightOverridePersists ==
  call.op = "add" =>
    \A n \in Nodes : pathOf(n) = call.path =>
      getWeight(Tree, weights, n) = configuredWeight(weights, call.path)

\* C10: the scalar total is, summed over the pool units, the unit's non-shared
\* quantity plus the shared instance's quantity once if the unit's total holds
\* at least one copy of it.
C10_SharedCountedOnce ==
  total.totals =
    sumOver(Units,
            [u \in Units |-> total.resources[u].nonShared
                                + (IF total.resources[u].shared > 0
                                   THEN SharedSize ELSE 0)])

\* A copy of the shared instance was removed from a unit while another copy
\* remains there.
C10_Witness ==
  /\ call.op = "removeTotal"
  /\ call.ret[1].shared >= 1
  /\ total.resources[call.path[1]].shared >= 1

\* The calls that need a client at their path.
clientScoped ==
  {"remove", "activate", "deactivate", "allocated", "update", "unallocated",
   "allocation", "allocationOn", "allocationScalarQuantities"}

\* C11: add of a client that exists, a client-scoped call on a path that is
\* no client and the removal of resources the unit's total does not hold
\* abort, and leave the state as it was; updateWeight and contains on a path
\* that is no client do not abort.
C11_step ==
  /\ (call'.op = "add" /\ call'.path \in DOMAIN clients) => aborted'
  /\ (call'.op \in clientScoped /\ call'.path \notin DOMAIN clients)
       => aborted'
  /\ (call'.op = "removeTotal"
        /\ ~resContains(total.resources[call'.path[1]], call'.ret[1]))
       => aborted'
  /\ call'.op \in {"updateWeight", "contains"} => ~aborted'
  /\ aborted' => UNCHANGED <<kind, parent, children, allocation, weight,
                             clients, weights, total>>

C11_ContractViolationsAbort == [][C11_step]_vars

\* add("a") has aborted while a is a client behind a virtual leaf.
C11_Witness ==
  /\ aborted
  /\ call.op = "add" /\ call.path = <<"a">>
  /\ clients[<<"a">>] = <<"a", ".">>

\* s without the element x.
without(s, x) == SelectSeq(s, LAMBDA y : y # x)

\* C12: activate(p) of an active client and deactivate(p) of an inactive one
\* change nothing; otherwise p's leaf changes kind and moves to the front
\* (activate) or the back (deactivate) of its parent's children, its siblings
\* keep their order, and nothing else changes.
C12_step ==
  call'.op \in {"activate", "deactivate"} =>
    LET n == clients[call'.path]
        from == IF call'.op = "activate" THEN INACTIVE_LEAF ELSE ACTIVE_LEAF
        to == IF call'.op = "activate" THEN ACTIVE_LEAF ELSE INACTIVE_LEAF
    IN /\ UNCHANGED <<parent, allocation, weight, clients, weights, total,
                      aborted>>
       /\ IF kind[n] # from
          THEN UNCHANGED <<kind, children>>
          ELSE /\ kind' = [kind EXCEPT ![n] = to]
               /\ children' =
                    [children EXCEPT ![parent[n]] =
                       IF call'.op = "activate"
                       THEN <<n>> \o without(@, n)
                       ELSE without(@, n) \o <<n>>]

C12_ActivateDeactivateFrame == [][C12_step]_vars

\* activate("a") has moved a's virtual leaf in front of its active sibling
\* a/b.
C12_Witness ==
  /\ call.op = "activate" /\ call.path = <<"a">>
  /\ clients[<<"a">>] = <<"a", ".">>
  /\ children[<<"a">>] = << <<"a", ".">>, <<"a", "b">> >>
  /\ kind[<<"a", "b">>] = ACTIVE_LEAF

\* C13: add(p) leaves p an InactiveLeaf with an empty allocation and the kind
\* of every other client as it was; an inactive client stays inactive until
\* activate is called on it; sort() returns active clients only, so no sort()
\* between add(p) and activate(p) returns p.
C13_step ==
  /\ call'.op = "add" =>
       /\ kind'[clients'[call'.path]] = INACTIVE_LEAF
       /\ allocation'[clients'[call'.path]] = emptyAllocation
       /\ \A q \in DOMAIN clients :
            /\ q \in DOMAIN clients'
            /\ kind'[clients'[q]] = kind[clients[q]]
  /\ \A p \in DOMAIN clients \cap DOMAIN clients' :
       (kind[clients[p]] = INACTIVE_LEAF /\ kind'[clients'[p]] # INACTIVE_LEAF)
         => call'.op = "activate" /\ call'.path = p
  /\ call'.op = "sort" =>
       \A i \in 1..Len(call'.ret) :
         /\ call'.ret[i] \in DOMAIN clients
         /\ kind[clients[call'.ret[i]]] = ACTIVE_LEAF

C13_NewClientStartsInactive == [][C13_step]_vars

\* sort() has returned a/b alone while a, added next to it and not yet
\* activated, sits in a "." leaf below a node that holds a/b's resources.
C13_Witness ==
  /\ call.op = "sort" /\ call.ret = << <<"a", "b">> >>
  /\ <<"a">> \in DOMAIN clients
  /\ clients[<<"a">>] = <<"a", ".">>
  /\ kind[<<"a", ".">>] = INACTIVE_LEAF
  /\ allocation[<<"a">>].totals > 0
  /\ allocation[<<"a", ".">>] = emptyAllocation

\* C14: in every reachable state activeInternalNodes() is the set of the
\* Internal nodes, the root included, with an ActiveLeaf in their subtree.
C14_ActiveInternalNodes ==
  activeInternalNodes(Tree) =
    {n \in Nodes : /\ kind[n] = INTERNAL
                   /\ \E m \in subtree(Tree, n) : kind[m] = ACTIVE_LEAF}

\* Below a, the active "." leaf of client a comes before the internal node
\* a/b, of which one client is active and the other is not; b is inactive.
C14_Witness ==
  /\ activeInternalNodes(Tree) = {root, <<"a">>, <<"a", "b">>}
  /\ children[<<"a">>] = << <<"a", ".">>, <<"a", "b">> >>
  /\ kind[<<"a", ".">>] = ACTIVE_LEAF
  /\ <<"a", "b", ".">> \in Nodes /\ kind[<<"a", "b", ".">>] = INACTIVE_LEAF
  /\ kind[<<"a", "b", "c">>] = ACTIVE_LEAF
  /\ <<"b">> \in Nodes /\ kind[<<"b">>] = INACTIVE_LEAF

\* The calls on clients and the calls on the global total.
clientCalls ==
  {"add", "remove", "activate", "deactivate", "updateWeight", "allocated",
   "update", "unallocated", "sort"}

totalCalls == {"addTotal", "removeTotal"}

\* C15: no call on a client and no sort() changes the global total, neither
\* its per-unit map nor its scalar quantities, and add and remove of the
\* global total change no node, no allocation, not the clients index and not
\* the weights.
C15_step ==
  /\ call'.op \in clientCalls =>
       /\ total'.resources = total.resources
       /\ total'.totals = total.totals
  /\ call'.op \in totalCalls =>
       UNCHANGED <<kind, parent, children, allocation, weight, clients,
                   weights>>

C15_TotalIndependentOfTree == [][C15_step]_vars

\* remove("a/b") has deleted a client that held resources and collapsed a
\* while the total is not empty.
C15_Witness ==
  /\ call.op = "remove" /\ call.path = <<"a", "b">>
  /\ \E u \in Units : call.held[1][u] > 0
  /\ <<"a">> \in DOMAIN clients /\ clients[<<"a">>] = <<"a">>
  /\ total.totals > 0

\* p is a proper prefix of q.
properPrefix(p, q) == Len(p) < Len(q) /\ SubSeq(q, 1, Len(p)) = p

\* C16: after every call that respects the preconditions no CHECK has
\* failed; a leaf has no children; a client path that is also a branch of the
\* hierarchy is an Internal node whose "." leaf child is registered in clients
\* under that path; a "." node is a leaf and not the only child of an Internal
\* node other than the root; an Internal node other than the root has a child.
C16_StructuralConsistency ==
  /\ ~aborted
  /\ \A n \in Nodes : kind[n] # INTERNAL => children[n] = <<>>
  /\ \A p \in DOMAIN clients :
       (\E m \in Nodes : properPrefix(p, m) /\ m # Append(p, ".")) =>
         /\ kind[p] = INTERNAL
         /\ clients[p] = Append(p, ".")
         /\ Append(p, ".") \in Range(children[p])
  /\ \A n \in Nodes : (n # root /\ nameOf(n) = ".") =>
       /\ kind[n] # INTERNAL
       /\ parent[n] # root => Len(children[parent[n]]) > 1
  /\ \A n \in Nodes : (n # root /\ kind[n] = INTERNAL) => children[n] # <<>>

\* remove("a/b/c") has deleted the emptied node a/b and then collapsed a,
\* whose only child left was its "." leaf, into a leaf.
C16_Witness ==
  /\ call.op = "remove" /\ call.path = <<"a", "b", "c">>
  /\ <<"a">> \in DOMAIN clients /\ clients[<<"a">>] = <<"a">>
  /\ <<"a", "b">> \notin Nodes
  /\ <<"a">> \in DOMAIN weights

\* The nodes below n, n included, in pre-order of the children lists.
RECURSIVE preOrder(_, _)
RECURSIVE preOrderFrom(_, _, _)
preOrder(t, n) == <<n>> \o preOrderFrom(t, n, 1)

preOrderFrom(t, n, i) ==
  IF i > Len(t.children[n]) THEN <<>>
  ELSE preOrder(t, t.children[n][i]) \o preOrderFrom(t, n, i + 1)

\* The position of node n in the sequence s.
indexOf(s, n) == CHOOSE i \in 1..Len(s) : s[i] = n

\* C18: in what sort() returns the clients of the subtree of an Internal node
\* are next to each other, and the clients come in the pre-order of the
\* children lists sort() has left.
C18_SortRespectsHierarchy ==
  call.op = "sort" =>
    LET ret == call.ret
        order == preOrder(Tree, root)
    IN /\ \A i \in 1..Len(ret) : ret[i] \in DOMAIN clients
       /\ \A i, j \in 1..Len(ret) :
            i < j => indexOf(order, clients[ret[i]]) <
                       indexOf(order, clients[ret[j]])
       /\ \A n \in Nodes : kind[n] = INTERNAL =>
            \A i, j, k \in 1..Len(ret) :
              (/\ i < j /\ j < k
               /\ clients[ret[i]] \in subtree(Tree, n)
               /\ clients[ret[k]] \in subtree(Tree, n))
                => clients[ret[j]] \in subtree(Tree, n)

\* sort() has put b before a and, below a, a/b before a's own "." leaf, and
\* has returned the three clients in that order.
C18_Witness ==
  /\ call.op = "sort"
  /\ call.ret = << <<"b">>, <<"a", "b">>, <<"a">> >>
  /\ children[root] = << <<"b">>, <<"a">> >>
  /\ children[<<"a">>] = << <<"a", "b">>, <<"a", ".">> >>

\* C19: sort() keeps every node's set of children, kind, parent and
\* allocation, the clients index, the weights and the total; in a children
\* list it permutes the part before the first InactiveLeaf and keeps the rest
\* in place, so inactive leaves that were a suffix stay one; the only cached
\* weights it writes are those not resolved before.
C19_step ==
  call'.op = "sort" =>
    /\ UNCHANGED <<kind, parent, allocation, clients, weights, total>>
    /\ DOMAIN children' = DOMAIN children
    /\ \A n \in Nodes :
         LET ib == inactiveBegin(Tree, n) IN
         /\ Len(children'[n]) = Len(children[n])
         /\ Range(SubSeq(children'[n], 1, ib - 1)) =
              Range(SubSeq(children[n], 1, ib - 1))
         /\ \A i \in ib..Len(children[n]) : children'[n][i] = children[n][i]
         /\ inactiveSuffix(Tree, n) =>
              \A i, j \in 1..Len(children'[n]) :
                (i < j /\ kind'[children'[n][i]] = INACTIVE_LEAF)
                  => kind'[children'[n][j]] = INACTIVE_LEAF
    /\ DOMAIN weight' = DOMAIN weight
    /\ \A n \in Nodes : weight'[n] # weight[n] => weight[n] = None

C19_SortOnlyReorders == [][C19_step]_vars

\* sort() has resolved the weight of a/b, which has no configured weight, and
\* has left a's inactive "." leaf behind the active a/b, while a/b holds
\* resources and the total is not empty.
C19_Witness ==
  /\ call.op = "sort"
  /\ <<"a", "b">> \in Nodes /\ <<"a", ".">> \in Nodes
  /\ children[<<"a">>] = << <<"a", "b">>, <<"a", ".">> >>
  /\ kind[<<"a", "b">>] = ACTIVE_LEAF /\ kind[<<"a", ".">>] = INACTIVE_LEAF
  /\ <<"a", "b">> \notin DOMAIN weights /\ weight[<<"a", "b">>] # None
  /\ <<"a">> \in DOMAIN weights
  /\ allocation[<<"a", "b">>].totals > 0
  /\ total.totals > 0

\* How often node c appears in the children list of n.
occurrences(n, c) ==
  Cardinality({i \in 1..Len(children[n]) : children[n][i] = c})

\* The walk along the parent links from n arrives at the root within k steps.
RECURSIVE walkEndsAtRoot(_, _)
walkEndsAtRoot(n, k) ==
  \/ n = root
  \/ /\ k > 0
     /\ n \in Nodes
     /\ walkEndsAtRoot(parent[n], k - 1)

\* C20: the root has no parent; every other node is exactly once in the
\* children of its parent and in no other children list; every child of a
\* node has that node as parent; every node is reachable from the root, and
\* the walk along the parent links from any node ends at the root.
C20_LinksConsistent ==
  /\ parent[root] = nullptr
  /\ \A n \in Nodes \ {root} :
       /\ parent[n] \in Nodes
       /\ occurrences(parent[n], n) = 1
       /\ \A m \in Nodes \ {parent[n]} : occurrences(m, n) = 0
  /\ \A n \in Nodes : \A i \in 1..Len(children[n]) :
       /\ children[n][i] \in Nodes
       /\ parent[children[n][i]] = n
  /\ subtree(Tree, root) = Nodes
  /\ \A n \in Nodes : walkEndsAtRoot(n, Cardinality(Nodes))

\* allocated has walked from the leaf a/b/c to the root in a tree where a and
\* a/b hold their clients in "." leaves and the "." leaf of a/b was moved to
\* the front by its activation.
C20_Witness ==
  /\ call.op = "allocated" /\ call.path = <<"a", "b", "c">>
  /\ allocation[root].totals > 0
  /\ <<"a", ".">> \in Nodes /\ <<"a", "b", ".">> \in Nodes
  /\ children[<<"a">>] = << <<"a", "b">>, <<"a", ".">> >>
  /\ children[<<"a", "b">>] = << <<"a", "b", ".">>, <<"a", "b", "c">> >>
  /\ kind[<<"a", "b", ".">>] = ACTIVE_LEAF

====
